---- MODULE Spec2Model ----
(***************************************************************************)
(* Model of src/app.py: a lottery ledger kept in SQLite (lotteries,        *)
(* participants, winners, lottery_logs, scheduled_redraws) and the script  *)
(* main(), which every browser session re-runs on its own connection:      *)
(* check_and_run_scheduled_draws, check_and_run_scheduled_redraws, then at *)
(* most one administrative action (create, re-draw planner, delete).       *)
(*                                                                         *)
(* One step of the model is one SQL statement that reads, or one           *)
(* transaction (the statements up to a conn.commit()).  A transaction is   *)
(* atomic and isolated in SQLite, a sequence of them is not: other         *)
(* sessions' steps interleave between any two steps of a session.          *)
(***************************************************************************)
EXTENDS Integers, Sequences, FiniteSets, Bags, TLC

\* ---------------------------------------------------------------- bounds
\* Common to both specifications.
NumSessions == 2
NumAdmins == 1
MaxTime == 1
MaxRoster == 2
\* A requested count may exceed the largest roster.
MaxWinners == MaxRoster + 1
\* Sessions running concurrently (Spec).
MaxCreates == 2
MaxLive == 1
MaxPlans == 1
MaxInterrupts == 1
MaxRounds == 3
\* One session, run after run (SpecSeq).
SeqCreates == 2
SeqLive == 2
SeqPlans == 2
\* One session commits no more rounds than this for one lottery: the first
\* draw, a re-draw per roster entry left, and the jobs.
SeqRounds == MaxRoster + SeqPlans
\* One session and one lottery, with longer rosters (SpecUnit).
UnitCreates == 1
UnitPlans == 1
UnitRounds == 3
UnitRoster == 3

\* ------------------------------------------------------- names and text
\* A text is a sequence of characters; a participant name is a text.
NameA == <<"a">>
NameB == <<"b">>
NameC == <<"c">>
\* A name with a comma in it.
NameAB == <<"a", ",", "b">>
Names == {NameA, NameB}
Blank == <<" ">>

\* What bounds the inputs of a specification: lotteries created in all and
\* existing at once, re-draw jobs inserted, rounds drawn, the names typed
\* into the create form, the lines typed, the winners asked for, and
\* whether completed scans are remembered (snap).
Conc == [creates |-> MaxCreates, live |-> MaxLive, plans |-> MaxPlans,
         rounds |-> MaxRounds, names |-> {NameA}, roster |-> MaxRoster,
         winners |-> MaxWinners, snap |-> FALSE]
Seql == [creates |-> SeqCreates, live |-> SeqLive, plans |-> SeqPlans,
         rounds |-> SeqRounds, names |-> Names, roster |-> MaxRoster,
         winners |-> MaxWinners, snap |-> TRUE]
Unit == [creates |-> UnitCreates, live |-> UnitCreates, plans |-> UnitPlans,
         rounds |-> UnitRounds, names |-> {NameA, NameB, NameC, NameAB},
         roster |-> UnitRoster, winners |-> UnitRoster, snap |-> FALSE]
Live == [creates |-> SeqCreates, live |-> SeqLive, plans |-> UnitPlans,
         rounds |-> MaxRoster + UnitPlans, names |-> {NameA},
         roster |-> MaxRoster, winners |-> MaxRoster, snap |-> TRUE]
Call == [creates |-> UnitCreates, live |-> UnitCreates, plans |-> UnitPlans,
         rounds |-> UnitRounds, names |-> {NameA}, roster |-> MaxRoster,
         winners |-> MaxRoster, snap |-> FALSE]

Sess == 1..NumSessions
\* The sessions that passed the admin gate (st.session_state.admin_auth,
\* lines 154 and 263); the others only view, which runs the scans.
Admins == 1..NumAdmins
Times == 0..MaxTime

Min(a, b) == IF a <= b THEN a ELSE b

Range(f) == {f[i] : i \in DOMAIN f}

SetMax(S) == CHOOSE x \in S : \A y \in S : y <= x

SetMin(S) == CHOOSE x \in S : \A y \in S : x <= y

\* The elements of a finite set of integers in ascending order.
RECURSIVE Ascending(_)
Ascending(S) ==
  IF S = {} THEN <<>> ELSE <<SetMin(S)>> \o Ascending(S \ {SetMin(S)})

\* The bag of the entries of a sequence.
BagOfSeq(q) ==
  [x \in Range(q) |-> Cardinality({i \in DOMAIN q : q[i] = x})]

\* The sub-bag of bag b on the rows of set D.
BagOn(b, D) == [x \in D |-> b[x]]

\* All sequences over S of length lo..hi.
SeqsOf(S, lo, hi) == UNION {[1..n -> S] : n \in lo..hi}

\* The sub-sequences of q (entries at an ascending set of positions).
SubSeqs(q) ==
  {[i \in 1..Cardinality(P) |-> q[Ascending(P)[i]]] : P \in SUBSET DOMAIN q}

\* str.strip(): leading and trailing blanks removed.
RECURSIVE LStrip(_)
LStrip(t) == IF t # <<>> /\ Head(t) = " " THEN LStrip(Tail(t)) ELSE t

RECURSIVE RStrip(_)
RStrip(t) ==
  IF t # <<>> /\ t[Len(t)] = " " THEN RStrip(SubSeq(t, 1, Len(t) - 1)) ELSE t

Strip(t) == RStrip(LStrip(t))

\* ",".join(chosen)
RECURSIVE Join(_)
Join(q) ==
  IF q = <<>> THEN <<>>
  ELSE IF Len(q) = 1 THEN q[1]
  ELSE q[1] \o <<",">> \o Join(Tail(q))

\* candidates_str.split(',')
RECURSIVE SplitFrom(_, _)
SplitFrom(t, cur) ==
  IF t = <<>> THEN <<cur>>
  ELSE IF Head(t) = "," THEN <<cur>> \o SplitFrom(Tail(t), <<>>)
  ELSE SplitFrom(Tail(t), Append(cur, Head(t)))

Split(t) == SplitFrom(t, <<>>)

\* ----------------------------------------------------------------- state
VARIABLES
  clock,         \* now_kst(), in ticks
  lotteries,     \* table lotteries: id -> row
  participants,  \* table participants, in rowid order
  winners,       \* table winners (a bag of rows)
  logs,          \* table lottery_logs (a bag of rows)
  jobs,          \* table scheduled_redraws (rows are keyed by id)
  pc,            \* per session: where its run of main() stands
  loc,           \* per session: the local variables of its run
  nCreated,      \* history: lotteries created so far
  nPlanned,      \* history: re-draw jobs inserted so far
  nCut,          \* history: runs cut short so far
  celebrated,    \* per session: st.session_state['celebrated_<id>'] set
  execs,         \* history: one entry per committed run_draw (a bag)
  snap           \* history: the ledger a completed scan left behind

ledger == <<lotteries, participants, winners, logs, jobs>>
vars == <<clock, lotteries, participants, winners, logs, jobs, pc, loc,
          celebrated, nCreated, nPlanned, nCut, execs, snap>>

NoLoc == [x \in {} |-> 0]
NoSnap == [valid |-> FALSE]

Init ==
  /\ clock = 0
  /\ lotteries = [i \in {} |-> 0]
  /\ participants = <<>>
  /\ winners = EmptyBag
  /\ logs = EmptyBag
  /\ jobs = {}
  /\ pc = [s \in Sess |-> "idle"]
  /\ loc = [s \in Sess |-> NoLoc]
  /\ celebrated = [s \in Sess |-> {}]
  /\ nCreated = 0
  /\ nPlanned = 0
  /\ nCut = 0
  /\ execs = EmptyBag
  /\ snap = NoSnap

\* ------------------------------------------------------ the ledger store
\* SQLite gives a row inserted without a rowid the largest rowid in use
\* plus one (INTEGER PRIMARY KEY without AUTOINCREMENT): the id of a
\* deleted last row is given out again.
NextRowId(ids) == IF ids = {} THEN 1 ELSE SetMax(ids) + 1

\* PRAGMA foreign_keys = ON: a child row is accepted only for a lottery
\* row that exists (else sqlite3.IntegrityError).
ForeignKeyOk(lid) == lid \in DOMAIN lotteries

\* SELECT name FROM participants WHERE lottery_id = ?
RosterOf(lid) ==
  LET rows == SelectSeq(participants, LAMBDA r : r.lottery_id = lid)
  IN  [i \in DOMAIN rows |-> rows[i].name]

WinnersOf(lid) == BagOn(winners, {r \in DOMAIN winners : r.lottery_id = lid})

\* SELECT MAX(draw_round) FROM winners WHERE lottery_id = ?  (or 0)
MaxRound(lid) ==
  LET rs == {r.draw_round : r \in DOMAIN WinnersOf(lid)}
  IN  IF rs = {} THEN 0 ELSE SetMax(rs)

\* SELECT id, num_winners FROM lotteries
\*   WHERE status = 'scheduled' AND draw_time <= now
DueLotteries(now) ==
  LET due == {i \in DOMAIN lotteries :
                /\ lotteries[i].status = "scheduled"
                /\ lotteries[i].draw_time <= now}
      ids == Ascending(due)
  IN  [k \in DOMAIN ids |->
         [id |-> ids[k], num_winners |-> lotteries[ids[k]].num_winners,
          gen |-> lotteries[ids[k]].gen]]

\* A faulty selection that leaves out the jobs of this very time (C18
\* fails).
DueJobsBeforeNow(now) ==
  LET due == {j \in jobs : j.execution_time < now}
      ids == Ascending({j.id : j \in due})
  IN  [k \in DOMAIN ids |-> CHOOSE j \in due : j.id = ids[k]]

\* SELECT id, lottery_id, num_winners, candidates FROM scheduled_redraws
\*   WHERE execution_time <= now
DueJobs(now) ==
  LET due == {j \in jobs : j.execution_time <= now}
      ids == Ascending({j.id : j \in due})
  IN  [k \in DOMAIN ids |-> CHOOSE j \in due : j.id = ids[k]]

\* The rows that ON DELETE CASCADE removes with lottery lid are the rows
\* that Cascade drops.
CascadeKeeps(row, lid) == row.lottery_id # lid

\* A faulty sample, with replacement: positions may repeat (C8 fails).
SampleWithReplacement(candidates, k) ==
  {[i \in 1..k |-> candidates[f[i]]] : f \in [1..k -> DOMAIN candidates]}

\* random.sample(candidates, k): k entries at distinct positions, in any
\* order.
Sample(candidates, k) ==
  {[i \in 1..k |-> candidates[f[i]]] :
     f \in {g \in [1..k -> DOMAIN candidates] :
              \A i, j \in 1..k : i # j => g[i] # g[j]}}

\* A faulty count that does not look at the pool (C17 fails).
ActualAsRequested(num_to_draw, candidates) == num_to_draw

\* A faulty count that takes the whole pool (C11 fails).
ActualWholePool(num_to_draw, candidates) == Len(candidates)

\* run_draw, lines 50-51: the number of winners of this round.
Actual(num_to_draw, candidates) == Min(num_to_draw, Len(candidates))

\* A faulty completion rule, one round late (C3 fails).
CompletesAtRoundTwo(current_round) == current_round = 2

\* run_draw, line 59: only round 1 completes the lottery.
CompletesLottery(current_round) == current_round = 1

\* What a session does next after run_draw returned to its caller.
AfterRunDraw(ret) ==
  CASE ret = "draws" -> "draws"
    [] ret = "job" -> "del"
    [] OTHER -> "idle"

\* The validation messages a run can end with: the create form's (lines
\* 284-285), the re-draw form's (lines 175-176), and "no candidates left"
\* in place of the re-draw form (line 185).
Rejections == {"create_rejected", "redraw_rejected", "no_candidates"}

\* A run of main() is over when it returned ("idle", or with a validation
\* message) or raised: the scan functions catch nothing, so an exception
\* of run_draw called by a scan ends the scan ("scan_error"); "error" is
\* an exception after the scans.
Stopped == {"idle", "returned", "error", "scan_error"} \cup Rejections

Raised(ret) == IF ret = "now" THEN "error" ELSE "scan_error"

\* A session whose script ended: its locals are gone.
Ends(s, how) ==
  /\ pc' = [pc EXCEPT ![s] = how]
  /\ loc' = [loc EXCEPT ![s] = NoLoc]

Goes(s, where, locals) ==
  /\ pc' = [pc EXCEPT ![s] = where]
  /\ loc' = [loc EXCEPT ![s] = locals]

\* A statement that is not a scan's own invalidates the snapshot a
\* completed scan left.
Touched == snap' = NoSnap

\* ------------------------------------------------------ the script main()
\* main, lines 93-94, check_and_run_scheduled_draws, lines 66-68: a run
\* starts on a fresh connection and selects the lotteries due now.
check_and_run_scheduled_draws_select(s, B) ==
  /\ pc[s] \in Stopped
  /\ Goes(s, "draws", [t0 |-> IF B.snap THEN clock ELSE 0,
                       todo |-> DueLotteries(clock)])
  /\ UNCHANGED <<celebrated, clock, ledger, nCreated, nPlanned, nCut,
                 execs, snap>>

\* check_and_run_scheduled_draws, lines 69-73: the next due lottery; its
\* roster is read and, when not empty, run_draw is entered (lines 50-52).
check_and_run_scheduled_draws_item(s) ==
  /\ pc[s] = "draws"
  /\ loc[s].todo # <<>>
  /\ LET it == Head(loc[s].todo)
         roster == RosterOf(it.id)
         rest == [t0 |-> loc[s].t0, todo |-> Tail(loc[s].todo)]
     IN  IF roster # <<>> /\ Actual(it.num_winners, roster) > 0
         THEN Goes(s, "max",
                   rest @@ [lid |-> it.id, gen |-> it.gen,
                            num |-> it.num_winners, cand |-> roster,
                            ret |-> "draws"])
         ELSE Goes(s, "draws", rest)
  /\ UNCHANGED <<celebrated, clock, ledger, nCreated, nPlanned, nCut,
                 execs, snap>>

\* run_draw, lines 49-51, called on its own with arguments of any kind: a
\* count that may be zero or negative, a pool that may be empty.  With
\* nothing to draw it returns the empty list before it touches the ledger.
run_draw_call(s, B) ==
  /\ pc[s] \in Stopped
  /\ \E lottery_id \in 1..B.live,
        num_to_draw \in -1..B.winners,
        candidates \in SeqsOf(B.names, 0, B.roster) :
       LET args == [lid |-> lottery_id,
                    gen |-> IF lottery_id \in DOMAIN lotteries
                            THEN lotteries[lottery_id].gen ELSE 0,
                    num |-> num_to_draw, cand |-> candidates,
                    ret |-> "call"]
       IN  IF Actual(num_to_draw, candidates) <= 0
           THEN Goes(s, "returned", args @@ [result |-> <<>>])
           ELSE Goes(s, "max", args)
  /\ UNCHANGED <<celebrated, clock, ledger, nCreated, nPlanned, nCut,
                 execs, snap>>

\* run_draw, lines 53-56: the round number is read before the
\* transaction of the inserts starts.
run_draw_select_max(s) ==
  /\ pc[s] = "max"
  /\ Goes(s, "ins", loc[s] @@ [round |-> MaxRound(loc[s].lid) + 1])
  /\ UNCHANGED <<celebrated, clock, ledger, nCreated, nPlanned, nCut,
                 execs, snap>>

\* run_draw, lines 52 and 57-61: the sampled winners are inserted under
\* the round read before, round 1 completes the lottery, one commit.  A
\* lottery deleted meanwhile makes the first INSERT raise IntegrityError.
run_draw_commit(s, B) ==
  /\ pc[s] = "ins"
  /\ loc[s].round <= B.rounds
  /\ LET l == loc[s] IN
     \E w \in Sample(l.cand, Actual(l.num, l.cand)) :
       IF ForeignKeyOk(l.lid)
       THEN /\ winners' = winners (+) BagOfSeq(
                 [i \in DOMAIN w |->
                    [lottery_id |-> l.lid, winner_name |-> w[i],
                     draw_round |-> l.round, gen |-> l.gen]])
            /\ lotteries' =
                 IF CompletesLottery(l.round)
                 THEN [lotteries EXCEPT ![l.lid].status = "completed"]
                 ELSE lotteries
            /\ execs' = execs (+) SetToBag({
                 [lottery_id |-> l.lid, round |-> l.round, src |-> l.ret,
                  uid |-> IF l.ret = "job" THEN l.uid ELSE 0]})
            /\ Goes(s, "log", l @@ [picked |-> w])
            /\ UNCHANGED <<participants, logs, jobs>>
       ELSE /\ Ends(s, Raised(l.ret))
            /\ UNCHANGED <<ledger, execs>>
  /\ UNCHANGED <<celebrated, clock, nCreated, nPlanned, nCut, snap>>

\* add_log, lines 44-47: one log row in a transaction of its own.
add_log(lottery_id, gen, message) ==
  logs' = logs (+) SetToBag({
    [lottery_id |-> lottery_id, log_message |-> message, gen |-> gen]})

\* Lines 74-75 and 86: the two scans set the celebration flag of the
\* lottery when run_draw returned winners; the re-draw button (line 179)
\* sets none.
Celebrates(ret) == ret \in {"draws", "job"}

\* run_draw, lines 62-63: the round's log entry, then back to the caller,
\* which sets its celebration flag.
run_draw_add_log(s) ==
  /\ pc[s] = "log"
  /\ LET l == loc[s] IN
     IF ForeignKeyOk(l.lid)
     THEN /\ add_log(l.lid, l.gen, <<"draw", l.round, l.picked>>)
          /\ celebrated' = IF Celebrates(l.ret)
                           THEN [celebrated EXCEPT ![s] = @ \cup {l.lid}]
                           ELSE celebrated
          /\ IF AfterRunDraw(l.ret) = "idle"
             THEN Ends(s, "idle")
             ELSE Goes(s, AfterRunDraw(l.ret),
                       [f \in DOMAIN l \ {"lid", "gen", "num", "cand", "ret",
                                          "round", "picked", "uid"} |-> l[f]])
     ELSE /\ Ends(s, Raised(l.ret))
          /\ UNCHANGED <<logs, celebrated>>
  /\ UNCHANGED <<clock, lotteries, participants, winners, jobs,
                 nCreated, nPlanned, nCut, execs, snap>>

\* check_and_run_scheduled_draws returns; check_and_run_scheduled_redraws,
\* lines 78-81: the jobs due now are selected.
check_and_run_scheduled_redraws_select(s) ==
  /\ pc[s] = "draws"
  /\ loc[s].todo = <<>>
  /\ Goes(s, "redraws", [t0 |-> loc[s].t0, tasks |-> DueJobs(clock)])
  /\ UNCHANGED <<celebrated, clock, ledger, nCreated, nPlanned, nCut,
                 execs, snap>>

\* check_and_run_scheduled_redraws, lines 82-85: the next task; its
\* candidate text is split and run_draw entered (lines 50-52).
check_and_run_scheduled_redraws_item(s) ==
  /\ pc[s] = "redraws"
  /\ loc[s].tasks # <<>>
  /\ LET j == Head(loc[s].tasks)
         candidates == Split(j.candidates)
         rest == [t0 |-> loc[s].t0, tasks |-> Tail(loc[s].tasks),
                  task |-> j.id]
     IN  IF candidates # <<>> /\ Actual(j.num_winners, candidates) > 0
         THEN Goes(s, "max",
                   rest @@ [lid |-> j.lottery_id, gen |-> j.gen,
                            num |-> j.num_winners, cand |-> candidates,
                            ret |-> "job", uid |-> j.uid])
         ELSE Goes(s, "del", rest)
  /\ UNCHANGED <<celebrated, clock, ledger, nCreated, nPlanned, nCut,
                 execs, snap>>

\* A faulty removal that keeps the job row (C7 fails).
KeepJob(task) == jobs

\* check_and_run_scheduled_redraws, line 87: the task's row is deleted by
\* id and committed.
DeleteJob(task) == {j \in jobs : j.id # task}

check_and_run_scheduled_redraws_delete(s) ==
  /\ pc[s] = "del"
  /\ jobs' = DeleteJob(loc[s].task)
  /\ Goes(s, "redraws", [t0 |-> loc[s].t0, tasks |-> loc[s].tasks])
  /\ UNCHANGED <<celebrated, clock, lotteries, participants, winners, logs,
                 nCreated, nPlanned, nCut, execs, snap>>

\* check_and_run_scheduled_redraws returns to main (line 95): the scan is
\* complete.  When the clock did not move during it, that is remembered,
\* with the number of scans completed since at this same time (1, or 2 for
\* more) and nothing but scans in between.
check_and_run_scheduled_redraws_done(s, B) ==
  /\ pc[s] = "redraws"
  /\ loc[s].tasks = <<>>
  /\ Goes(s, "ui", NoLoc)
  /\ snap' = IF ~B.snap \/ loc[s].t0 # clock THEN NoSnap
             ELSE [valid |-> TRUE,
                   runs |-> IF snap.valid THEN Min(snap.runs + 1, 2) ELSE 1]
  /\ UNCHANGED <<celebrated, clock, ledger, nCreated, nPlanned, nCut, execs>>

\* main, line 296: a run that pressed no button closes its connection.
main_no_action(s) ==
  /\ pc[s] = "ui"
  /\ Ends(s, "idle")
  /\ UNCHANGED <<celebrated, clock, ledger, nCreated, nPlanned, nCut,
                 execs, snap>>

\* main, line 283: the names of the text area, one per line, stripped,
\* blank lines dropped.
ParseNames(lines) ==
  LET stripped == [i \in DOMAIN lines |-> Strip(lines[i])]
  IN  SelectSeq(stripped, LAMBDA n : n # <<>>)

\* A faulty validation that does not look at the names (C14 fails).
CreateAcceptsNoNames(title, names, draw_type, draw_time, now) ==
  /\ title # <<>>
  /\ ~(draw_type = "sched" /\ draw_time <= now)

\* main, lines 284-285: what the create button accepts.
CreateAccepts(title, names, draw_type, draw_time, now) ==
  /\ title # <<>>
  /\ names # <<>>
  /\ ~(draw_type = "sched" /\ draw_time <= now)

\* main, lines 272-291: the create button.  The lottery row and its
\* participants are inserted and committed together; a rejected input
\* leaves the ledger as it is.
main_create(s, B) ==
  /\ pc[s] = "ui"
  /\ s \in Admins
  /\ nCreated < B.creates
  /\ Cardinality(DOMAIN lotteries) < B.live
  /\ \E title \in {<<>>, <<"t">>},
        lines \in SeqsOf(B.names \cup {Blank}, 0, B.roster),
        num_winners \in 1..B.winners,
        draw_type \in {"now", "sched"},
        picked_time \in Times :
       LET names == ParseNames(lines)
           draw_time == IF draw_type = "sched" THEN picked_time ELSE clock
           lid == NextRowId(DOMAIN lotteries)
           gen == nCreated + 1
       IN  IF CreateAccepts(title, names, draw_type, draw_time, clock)
           THEN /\ lotteries' =
                     [i \in DOMAIN lotteries \cup {lid} |->
                        IF i = lid
                        THEN [title |-> title, status |-> "scheduled",
                              draw_time |-> draw_time,
                              num_winners |-> num_winners, gen |-> gen]
                        ELSE lotteries[i]]
                /\ participants' = participants \o
                     [i \in DOMAIN names |->
                        [lottery_id |-> lid, name |-> names[i]]]
                /\ nCreated' = nCreated + 1
                /\ Goes(s, "clog", [lid |-> lid, gen |-> gen,
                                     draw_type |-> draw_type])
                /\ Touched
                /\ UNCHANGED <<winners, logs, jobs>>
           ELSE /\ Ends(s, "create_rejected")
                /\ UNCHANGED <<ledger, nCreated, snap>>
  /\ UNCHANGED <<celebrated, clock, nPlanned, nCut, execs>>

\* main, line 292: the creation log entry, in a transaction of its own.
main_create_add_log(s) ==
  /\ pc[s] = "clog"
  /\ LET l == loc[s] IN
     IF ForeignKeyOk(l.lid)
     THEN /\ add_log(l.lid, l.gen, <<"created", l.draw_type>>)
          /\ Ends(s, "idle")
     ELSE /\ Ends(s, "error")
          /\ UNCHANGED logs
  /\ UNCHANGED <<celebrated, clock, lotteries, participants, winners, jobs,
                 nCreated, nPlanned, nCut, execs, snap>>

\* DELETE FROM lotteries WHERE id = ?, with ON DELETE CASCADE on the four
\* child tables (lines 25-37).
DeleteLottery(lid) ==
  /\ lotteries' = [i \in DOMAIN lotteries \ {lid} |-> lotteries[i]]
  /\ participants' =
       SelectSeq(participants, LAMBDA r : CascadeKeeps(r, lid))
  /\ winners' = BagOn(winners, {r \in DOMAIN winners : CascadeKeeps(r, lid)})
  /\ logs' = BagOn(logs, {r \in DOMAIN logs : CascadeKeeps(r, lid)})
  /\ jobs' = {j \in jobs : CascadeKeeps(j, lid)}

\* main, lines 112-115 and 131-132: the detail view of lottery lid, when
\* it is completed, serves the session's celebration flag and clears it.
ServeCelebration(s, lid) ==
  celebrated' =
    IF lid \in DOMAIN lotteries /\ lotteries[lid].status = "completed"
    THEN [celebrated EXCEPT ![s] = @ \ {lid}]
    ELSE celebrated

\* main, lines 108-151: a run that shows the detail view of lottery lid
\* and presses no button.
main_view_detail(s, B) ==
  /\ pc[s] = "ui"
  /\ \E lid \in 1..B.live : ServeCelebration(s, lid)
  /\ Ends(s, "idle")
  /\ UNCHANGED <<clock, ledger, nCreated, nPlanned, nCut, execs, snap>>

\* main, lines 112-114 and 189-195: the confirmed delete button of the
\* detail view of lottery lid; a lottery that is gone is "not found"
\* (line 196).
main_delete(s, B) ==
  /\ pc[s] = "ui"
  /\ s \in Admins
  /\ \E lid \in 1..B.live :
       /\ ServeCelebration(s, lid)
       /\ IF lid \in DOMAIN lotteries
          THEN /\ DeleteLottery(lid)
               /\ execs' = BagOn(execs,
                     {e \in DOMAIN execs : CascadeKeeps(e, lid)})
               /\ Touched
          ELSE UNCHANGED <<ledger, execs, snap>>
  /\ Ends(s, "idle")
  /\ UNCHANGED <<clock, nCreated, nPlanned, nCut>>

\* list.remove(x) when x is in the list: the first entry equal to x goes.
RemoveFirst(q, x) ==
  IF \E i \in DOMAIN q : q[i] = x
  THEN LET k == SetMin({i \in DOMAIN q : q[i] = x})
       IN  SubSeq(q, 1, k - 1) \o SubSeq(q, k + 1, Len(q))
  ELSE q

RECURSIVE RemoveCopies(_, _, _)
RemoveCopies(q, x, n) ==
  IF n = 0 THEN q ELSE RemoveCopies(RemoveFirst(q, x), x, n - 1)

\* How many winner rows of lottery lid carry the name.
WinCount(lid, name) ==
  BagCardinality(BagOn(winners,
           {r \in DOMAIN winners : r.lottery_id = lid
               /\ r.winner_name = name}))

\* main, lines 160-163: for every winner row read, one roster entry of
\* that name (if any is left) is struck from the candidates.
RECURSIVE StrikeWinners(_, _, _)
StrikeWinners(cand, lid, names) ==
  IF names = {} THEN cand
  ELSE LET n == CHOOSE x \in names : TRUE
       IN  StrikeWinners(RemoveCopies(cand, n, WinCount(lid, n)), lid,
                         names \ {n})

WinnerNames(lid) == {r.winner_name : r \in DOMAIN WinnersOf(lid)}

\* main, lines 112-115 and 157: the detail view of lottery lid reads the
\* lottery row; the re-draw form is shown for a completed lottery only.
main_redraw_select_lottery(s, B) ==
  /\ pc[s] = "ui"
  /\ s \in Admins
  /\ \E lid \in 1..B.live :
       /\ ServeCelebration(s, lid)
       /\ IF lid \in DOMAIN lotteries /\ lotteries[lid].status = "completed"
          THEN Goes(s, "roster", [lid |-> lid, gen |-> lotteries[lid].gen])
          ELSE Ends(s, "idle")
  /\ UNCHANGED <<clock, ledger, nCreated, nPlanned, nCut, execs, snap>>

\* main, line 159: the roster is read.
main_redraw_select_roster(s) ==
  /\ pc[s] = "roster"
  /\ Goes(s, "prev", loc[s] @@ [all_p |-> RosterOf(loc[s].lid)])
  /\ UNCHANGED <<celebrated, clock, ledger, nCreated, nPlanned, nCut,
                 execs, snap>>

\* main, lines 160-164 and 185: the winners so far are read and struck
\* from the roster; with no candidate left there is no form.
main_redraw_select_winners(s) ==
  /\ pc[s] = "prev"
  /\ LET l == loc[s]
         cand == StrikeWinners(l.all_p, l.lid, WinnerNames(l.lid))
     IN  IF cand # <<>>
         THEN Goes(s, "plan", [lid |-> l.lid, gen |-> l.gen, cand |-> cand])
         ELSE Ends(s, "no_candidates")
  /\ UNCHANGED <<celebrated, clock, ledger, nCreated, nPlanned, nCut,
                 execs, snap>>

\* A faulty validation that lets the present time pass (C12 fails).
RedrawAcceptsPresent(chosen, redraw_type, redraw_time, now) ==
  /\ chosen # <<>>
  /\ ~(redraw_type = "sched" /\ redraw_time < now)

\* main, lines 175-176: what the re-draw button accepts.
RedrawAccepts(chosen, redraw_type, redraw_time, now) ==
  /\ chosen # <<>>
  /\ ~(redraw_type = "sched" /\ redraw_time <= now)

\* main, lines 165-184: the re-draw button.  An immediate re-draw enters
\* run_draw with the chosen candidates; a scheduled one inserts a job row
\* holding them joined by commas, and commits.
main_redraw_submit(s, B) ==
  /\ pc[s] = "plan"
  /\ LET l == loc[s] IN
     \E chosen \in SubSeqs(l.cand),
        redraw_type \in {"now", "sched"},
        picked_time \in Times :
       \E num_r \in 1..(IF chosen = <<>> THEN 1 ELSE Len(chosen)) :
         LET redraw_time ==
               IF redraw_type = "sched" THEN picked_time ELSE clock
         IN  IF ~RedrawAccepts(chosen, redraw_type, redraw_time, clock)
             THEN /\ Ends(s, "redraw_rejected")
                  /\ UNCHANGED <<ledger, nPlanned, snap>>
             ELSE IF redraw_type = "now"
             THEN /\ Goes(s, "max",
                          [lid |-> l.lid, gen |-> l.gen, num |-> num_r,
                           cand |-> chosen, ret |-> "now"])
                  /\ Touched
                  /\ UNCHANGED <<ledger, nPlanned>>
             ELSE IF ~ForeignKeyOk(l.lid)
             THEN /\ Ends(s, "error")
                  /\ UNCHANGED <<ledger, nPlanned, snap>>
             ELSE /\ nPlanned < B.plans
                  /\ jobs' = jobs \cup {
                       [id |-> NextRowId({j.id : j \in jobs}),
                        lottery_id |-> l.lid,
                        execution_time |-> redraw_time,
                        num_winners |-> num_r,
                        candidates |-> Join(chosen),
                        gen |-> l.gen, uid |-> nPlanned + 1]}
                  /\ nPlanned' = nPlanned + 1
                  /\ Goes(s, "plog",
                          [lid |-> l.lid, gen |-> l.gen, n |-> Len(chosen)])
                  /\ Touched
                  /\ UNCHANGED <<lotteries, participants, winners, logs>>
  /\ UNCHANGED <<celebrated, clock, nCreated, nCut, execs>>

\* main, line 183: the log entry of the planned re-draw, in a transaction
\* of its own.
main_redraw_add_log(s) ==
  /\ pc[s] = "plog"
  /\ LET l == loc[s] IN
     IF ForeignKeyOk(l.lid)
     THEN /\ add_log(l.lid, l.gen, <<"planned", l.n>>)
          /\ Ends(s, "idle")
     ELSE /\ Ends(s, "error")
          /\ UNCHANGED logs
  /\ UNCHANGED <<celebrated, clock, lotteries, participants, winners, jobs,
                 nCreated, nPlanned, nCut, execs, snap>>

\* ------------------------------------------------------------ environment
\* Time passes.
Tick ==
  /\ clock < MaxTime
  /\ clock' = clock + 1
  /\ Touched
  /\ UNCHANGED <<celebrated, ledger, pc, loc, nCreated, nPlanned, nCut, execs>>

\* A run of main() is cut short (the process or the session goes away):
\* what it committed stays, nothing else of it does.
Interrupt(s) ==
  /\ pc[s] \notin Stopped
  /\ nCut < MaxInterrupts
  /\ nCut' = nCut + 1
  /\ Ends(s, "idle")
  /\ UNCHANGED <<celebrated, clock, ledger, nCreated, nPlanned, execs, snap>>

Step(s, B) ==
  \/ check_and_run_scheduled_draws_select(s, B)
  \/ check_and_run_scheduled_draws_item(s)
  \/ run_draw_select_max(s)
  \/ run_draw_commit(s, B)
  \/ run_draw_add_log(s)
  \/ check_and_run_scheduled_redraws_select(s)
  \/ check_and_run_scheduled_redraws_item(s)
  \/ check_and_run_scheduled_redraws_delete(s)
  \/ check_and_run_scheduled_redraws_done(s, B)
  \/ main_no_action(s)
  \/ main_view_detail(s, B)
  \/ main_create(s, B)
  \/ main_create_add_log(s)
  \/ main_delete(s, B)
  \/ main_redraw_select_lottery(s, B)
  \/ main_redraw_select_roster(s)
  \/ main_redraw_select_winners(s)
  \/ main_redraw_submit(s, B)
  \/ main_redraw_add_log(s)

\* Sessions run concurrently and may be cut short.
Next ==
  \/ \E s \in Sess : Step(s, Conc)
  \/ \E s \in Sess : Interrupt(s)
  \/ Tick

Spec == Init /\ [][Next]_vars

\* One session, run after run, every run to its end.
NextSeq ==
  \/ Step(1, Seql)
  \/ Tick

SpecSeq == Init /\ [][NextSeq]_vars

\* One session whose script is run again and again (st_autorefresh, line
\* 92): a step of it that can be taken is taken in the end.
NextLive ==
  \/ Step(1, Live)
  \/ Tick

SpecLive == Init /\ [][NextLive]_vars /\ WF_vars(Step(1, Live))

\* One session and one lottery, rosters of up to UnitRoster entries.
NextUnit ==
  \/ Step(1, Unit)
  \/ Tick

SpecUnit == Init /\ [][NextUnit]_vars

\* One session and one lottery; run_draw is also called on its own.
NextCall ==
  \/ Step(1, Call)
  \/ run_draw_call(1, Call)
  \/ Tick

SpecCall == Init /\ [][NextCall]_vars

\* ----------------------------------------------------------------- claims
RosterCount(lid, name) ==
  Cardinality({i \in DOMAIN participants :
                 /\ participants[i].lottery_id = lid
                 /\ participants[i].name = name})

ExecsOf(lid) == BagOn(execs, {e \in DOMAIN execs : e.lottery_id = lid})

RoundsOf(lid) == {r.draw_round : r \in DOMAIN WinnersOf(lid)}

\* The winner rows a step adds.
NewWinners == winners' (-) winners

\* C1: for every lottery and every name, no more winner rows carry the
\* name than roster entries do (no roster entry wins twice).
C1_NoRosterEntryWinsTwice ==
  \A lid \in DOMAIN lotteries : \A n \in WinnerNames(lid) :
    WinCount(lid, n) <= RosterCount(lid, n)

\* C2: the round numbers on a lottery's winner rows are exactly 1..N, N
\* the number of committed executions of run_draw for it, and no two
\* executions wrote under the same round number.
C2_RoundsAreOneToN ==
  \A lid \in DOMAIN lotteries :
    /\ RoundsOf(lid) = 1..BagCardinality(ExecsOf(lid))
    /\ \A e \in DOMAIN ExecsOf(lid) :
         BagCardinality(BagOn(ExecsOf(lid),
                  {x \in DOMAIN ExecsOf(lid) : x.round = e.round})) = 1

\* C3: a lottery's status only ever changes from scheduled to completed;
\* it does so in the step that commits winners of round 1, that step
\* always leaves it completed, and a step that commits a later round
\* leaves the status as it was.
C3_AddsRound(lid, first) ==
  \E r \in DOMAIN NewWinners :
    r.lottery_id = lid /\ ((r.draw_round = 1) <=> first)

C3_StatusCompletesOnceAtRoundOne ==
  [][\A lid \in DOMAIN lotteries \cap DOMAIN lotteries' :
       /\ lotteries'[lid].status # lotteries[lid].status =>
            /\ lotteries[lid].status = "scheduled"
            /\ lotteries'[lid].status = "completed"
            /\ C3_AddsRound(lid, TRUE)
       /\ C3_AddsRound(lid, TRUE) => lotteries'[lid].status = "completed"
       /\ C3_AddsRound(lid, FALSE) =>
            lotteries'[lid].status = lotteries[lid].status]_vars

\* C3 witness: a completed lottery that a re-draw round was committed for.
C3_Witness ==
  \E lid \in DOMAIN lotteries :
    /\ lotteries[lid].status = "completed"
    /\ \E r \in RoundsOf(lid) : r >= 2
    /\ 1 \in RoundsOf(lid)

\* C4: the job row is gone in every committed state that holds winners
\* the job produced, and no job is executed twice.
C4_JobGoesWithItsWinners ==
  \A e \in DOMAIN execs :
    e.src = "job" =>
      /\ ~\E j \in jobs : j.uid = e.uid
      /\ BagCardinality(BagOn(execs,
               {x \in DOMAIN execs : x.src = "job" /\ x.uid = e.uid})) = 1

\* C5: in every committed state a round that has winner rows has its log
\* entry.
C5_RoundHasItsLogEntry ==
  \A r \in DOMAIN winners :
    \E g \in DOMAIN logs :
      /\ g.lottery_id = r.lottery_id
      /\ g.log_message[1] = "draw"
      /\ g.log_message[2] = r.draw_round

\* C6: a due scheduled lottery is drawn by at most one scan (one round 1
\* is written for it) and a due job is executed by at most one scan.
C6_DueWorkRunsOnce ==
  /\ \A lid \in DOMAIN lotteries :
       /\ BagCardinality(BagOn(execs,
                {x \in DOMAIN execs : x.src = "draws"
                    /\ x.lottery_id = lid})) <= 1
       /\ BagCardinality(BagOn(execs,
                {x \in DOMAIN execs : x.round = 1 /\ x.lottery_id = lid})) <= 1
  /\ \A e \in DOMAIN execs :
       e.src = "job" =>
         BagCardinality(BagOn(execs,
                  {x \in DOMAIN execs : x.src = "job" /\ x.uid = e.uid})) <= 1

\* C7: once a scan has completed, a step taken while nothing but scans at
\* the same time follow changes no table of the ledger.
C7_RepeatedScanChangesNothing ==
  [][(snap.valid /\ snap'.valid) => ledger' = ledger]_vars

\* C7 witness: a second scan completed right after a first, in a ledger
\* in which a lottery was drawn and a job was executed and deleted.
C7_Witness ==
  /\ snap.valid
  /\ snap.runs = 2
  /\ jobs = {}
  /\ \E e \in DOMAIN execs : e.src = "job"
  /\ \E e \in DOMAIN execs : e.src = "draws"

\* C8: a committing run_draw adds exactly min(requested, pool size) winner
\* rows, under its lottery and round, whose names sit at distinct
\* positions of the pool (as a bag they are within the pool); a request
\* beyond the pool takes the whole pool, and raises nothing.
C8_NamesOf(rows) ==
  [n \in {r.winner_name : r \in DOMAIN rows} |->
     BagCardinality(BagOn(rows, {r \in DOMAIN rows : r.winner_name = n}))]

C8_DrawWritesMinDistinct ==
  [][\A s \in Sess :
       (pc[s] = "ins" /\ pc'[s] \notin {"ins", "idle"}) =>
         LET l == loc[s]
             n == Len(l.cand)
             k == IF l.num < n THEN l.num ELSE n
             pool == BagOfSeq(l.cand)
         IN  IF l.lid \in DOMAIN lotteries
             THEN /\ pc'[s] = "log"
                  /\ BagCardinality(NewWinners) = k
                  /\ \A r \in DOMAIN NewWinners :
                       r.lottery_id = l.lid /\ r.draw_round = l.round
                  /\ C8_NamesOf(NewWinners) \sqsubseteq pool
                  /\ l.num >= n => C8_NamesOf(NewWinners) = pool
             ELSE winners' = winners]_vars

\* C8 witness: a round was committed for a request larger than its pool.
C8_Witness ==
  \E s \in Sess :
    /\ pc[s] = "log"
    /\ loc[s].num > Len(loc[s].cand)
    /\ Len(loc[s].picked) = Len(loc[s].cand)
    /\ Len(loc[s].cand) = MaxRoster

\* C9: every row of a child table belongs to a lottery that exists; no
\* row written from a deleted lottery's data is in the ledger.
C9_NoRowOfADeletedLottery ==
  /\ \A i \in DOMAIN participants :
       participants[i].lottery_id \in DOMAIN lotteries
  /\ \A r \in DOMAIN winners \cup DOMAIN logs \cup jobs :
       /\ r.lottery_id \in DOMAIN lotteries
       /\ r.gen = lotteries[r.lottery_id].gen

\* C10: no scan ends in an exception.
C10_ScanNeverRaises ==
  \A s \in Sess : pc[s] # "scan_error"

\* The log rows of lottery lid.
LogsOf(lid) == BagOn(logs, {g \in DOMAIN logs : g.lottery_id = lid})

\* The log rows of lottery lid whose message is of the kind.
LogsOfKind(lid, kind) ==
  BagOn(logs, {g \in DOMAIN logs : g.lottery_id = lid
                  /\ g.log_message[1] = kind})

\* Lottery lid was created with participants a, b, c, 2 winners and an
\* immediate draw, a scan has run since, and nothing else was done to it.
C11_Case(lid) ==
  /\ RosterOf(lid) = <<NameA, NameB, NameC>>
  /\ lotteries[lid].num_winners = 2
  /\ \E g \in DOMAIN LogsOf(lid) : g.log_message = <<"created", "now">>
  /\ pc[1] = "ui"
  /\ nPlanned = 0
  /\ ~\E e \in DOMAIN execs : e.src = "now"

\* The winner rows and the status that the round trip leaves.
C11_TwoWinners(lid) ==
  /\ lotteries[lid].status = "completed"
  /\ BagCardinality(WinnersOf(lid)) = 2
  /\ \A r \in DOMAIN WinnersOf(lid) : r.draw_round = 1
  /\ C8_NamesOf(WinnersOf(lid)) \sqsubseteq BagOfSeq(RosterOf(lid))

\* C11 as stated: the round trip leaves 2 winner rows of round 1 on
\* distinct roster entries, status completed, and exactly one log entry.
C11_RoundTripOneLogEntry ==
  \A lid \in DOMAIN lotteries :
    C11_Case(lid) =>
      /\ C11_TwoWinners(lid)
      /\ BagCardinality(LogsOf(lid)) = 1

\* C11 amended: the round trip leaves 2 winner rows of round 1 on distinct
\* roster entries, status completed, and exactly two log entries: the
\* creation entry and the entry of round 1.
C11_RoundTripTwoLogEntries ==
  \A lid \in DOMAIN lotteries :
    C11_Case(lid) =>
      /\ C11_TwoWinners(lid)
      /\ BagCardinality(LogsOf(lid)) = 2
      /\ BagCardinality(LogsOfKind(lid, "created")) = 1
      /\ BagCardinality(LogsOfKind(lid, "draw")) = 1

\* C11 witness: the round trip was made, with its two winners.
C11_Witness ==
  \E lid \in DOMAIN lotteries :
    /\ C11_Case(lid)
    /\ {r.winner_name : r \in DOMAIN WinnersOf(lid)} = {NameA, NameC}

\* The roster entries left when every winner row strikes one entry of its
\* name: a difference of bags.
C12_Eligible(roster, lid) ==
  BagOfSeq(roster) (-) C8_NamesOf(WinnersOf(lid))

\* C12: the planner leaves the ledger as it is unless it accepts.  With no
\* eligible entry it shows no form; a submission that enters run_draw has
\* a non-empty chosen list; the only step that changes the ledger adds
\* one job, for a non-empty chosen list and a time later than now.
C12_PlannerRejectsCleanly ==
  [][\A s \in Sess :
       /\ (pc[s] = "prev" /\ pc'[s] # "prev") =>
            /\ ledger' = ledger
            /\ C12_Eligible(loc[s].all_p, loc[s].lid) = EmptyBag =>
                 pc'[s] # "plan"
            /\ pc'[s] = "plan" => loc'[s].cand # <<>>
       /\ (pc[s] = "plan" /\ pc'[s] # "plan") =>
            /\ pc'[s] # "plog" => ledger' = ledger
            /\ pc'[s] = "max" => loc'[s].cand # <<>>
            /\ pc'[s] = "plog" =>
                 /\ loc'[s].n >= 1
                 /\ <<lotteries', participants', winners', logs'>>
                      = <<lotteries, participants, winners, logs>>
                 /\ jobs \subseteq jobs'
                 /\ Cardinality(jobs' \ jobs) = 1
                 /\ \A j \in jobs' \ jobs :
                      /\ j.execution_time > clock
                      /\ Len(Split(j.candidates)) >= 1]_vars

\* C12 witness: every roster entry of a completed lottery has won, two
\* entries in two rounds, and the planner ended with "no candidates".
C12_Witness ==
  \E s \in Sess : \E lid \in DOMAIN lotteries :
    /\ pc[s] = "no_candidates"
    /\ lotteries[lid].status = "completed"
    /\ Len(RosterOf(lid)) = 2
    /\ C12_Eligible(RosterOf(lid), lid) = EmptyBag
    /\ RoundsOf(lid) = {1, 2}

\* C13: every pending re-draw job belongs to a completed lottery, and a
\* round of a re-draw (from the re-draw button or from a job) is only
\* committed for a lottery that is completed.
C13_RedrawOnlyWhenCompleted ==
  [][/\ \A j \in jobs' :
          /\ j.lottery_id \in DOMAIN lotteries'
          /\ lotteries'[j.lottery_id].status = "completed"
     /\ \A s \in Sess :
          (pc[s] = "ins" /\ pc'[s] = "log"
             /\ loc[s].ret \in {"now", "job"}) =>
            lotteries[loc[s].lid].status = "completed"]_vars

\* The participant rows of lottery lid after the step.
C14_NewRoster(lid) ==
  SelectSeq(participants', LAMBDA r : r.lottery_id = lid)

\* C14: a create that is rejected leaves the ledger as it is; a lottery
\* only ever appears by a create step, with a title, a roster that is not
\* empty and holds no blank name, status scheduled, and a draw time that
\* is now for an immediate draw and later than now for a scheduled one;
\* that step adds no other row.
C14_CreateRejectsCleanly ==
  [][/\ \A s \in Sess :
          /\ (pc[s] = "ui" /\ pc'[s] = "create_rejected") =>
               ledger' = ledger
          /\ (pc[s] = "ui" /\ pc'[s] = "clog") =>
               LET lid == loc'[s].lid IN
               /\ lid \notin DOMAIN lotteries
               /\ DOMAIN lotteries' = DOMAIN lotteries \cup {lid}
               /\ \A i \in DOMAIN lotteries : lotteries'[i] = lotteries[i]
               /\ lotteries'[lid].status = "scheduled"
               /\ lotteries'[lid].title # <<>>
               /\ C14_NewRoster(lid) # <<>>
               /\ \A i \in DOMAIN C14_NewRoster(lid) :
                    LET n == C14_NewRoster(lid)[i].name
                    IN  n # <<>> /\ Strip(n) = n
               /\ participants' = participants \o C14_NewRoster(lid)
               /\ IF loc'[s].draw_type = "sched"
                  THEN lotteries'[lid].draw_time > clock
                  ELSE lotteries'[lid].draw_time = clock
               /\ <<winners', logs', jobs'>> = <<winners, logs, jobs>>
     /\ ~(DOMAIN lotteries' \subseteq DOMAIN lotteries) =>
          \E s \in Sess : pc[s] = "ui" /\ pc'[s] = "clog"]_vars

\* C14 witness: a create was rejected and the ledger is still empty.
C14_Witness ==
  \E s \in Sess :
    /\ pc[s] = "create_rejected"
    /\ DOMAIN lotteries = {}
    /\ participants = <<>>
    /\ logs = EmptyBag

\* C15: in every committed state a lottery row exists if and only if its
\* participant rows and its creation log entry exist.
C15_CreateIsOneUnit ==
  /\ \A lid \in DOMAIN lotteries :
       /\ RosterOf(lid) # <<>>
       /\ BagCardinality(LogsOfKind(lid, "created")) = 1
  /\ \A i \in DOMAIN participants :
       participants[i].lottery_id \in DOMAIN lotteries
  /\ \A g \in DOMAIN logs :
       g.log_message[1] = "created" => g.lottery_id \in DOMAIN lotteries

\* C16: when run_draw has returned winners (from the first-draw scan, a
\* due job or the re-draw button) the celebration flag of the lottery is
\* set in the session; a flag only goes away by the detail view that
\* serves it, one flag at a time, for a completed lottery.
C16_RoundRaisesCelebration ==
  [][\A s \in Sess :
       /\ (pc[s] = "log" /\ logs' # logs) =>
            loc[s].lid \in celebrated'[s]
       /\ ~(celebrated[s] \subseteq celebrated'[s]) =>
            /\ pc[s] = "ui"
            /\ Cardinality(celebrated[s] \ celebrated'[s]) = 1
            /\ \A lid \in celebrated[s] \ celebrated'[s] :
                 /\ lid \in DOMAIN lotteries
                 /\ lotteries[lid].status = "completed"]_vars

\* C17: run_draw called with an empty pool, or with a count of zero or
\* less, returns the empty list, and only then; the call changes no table
\* (no winner row, no status, no log entry, no round number used).
C17_EmptyDrawChangesNothing ==
  [][\A s \in Sess :
       (pc[s] \in Stopped /\ pc'[s] \in {"returned", "max"}) =>
         LET a == loc'[s] IN
         /\ a.ret = "call"
         /\ ledger' = ledger
         /\ {r.draw_round : r \in DOMAIN winners'}
              = {r.draw_round : r \in DOMAIN winners}
         /\ (a.cand = <<>> \/ a.num <= 0) <=> pc'[s] = "returned"
         /\ pc'[s] = "returned" => a.result = <<>>]_vars

\* C17 witness: run_draw came back empty from an empty pool, asked for one
\* winner, for a lottery that has its round 1.
C17_Witness ==
  \E s \in Sess :
    /\ pc[s] = "returned"
    /\ loc[s].cand = <<>>
    /\ loc[s].num = 1
    /\ loc[s].lid \in DOMAIN lotteries
    /\ MaxRound(loc[s].lid) = 1

\* Nothing is due: no scheduled lottery whose draw time has come, no job
\* whose execution time has come.
C18_NothingDue ==
  /\ \A lid \in DOMAIN lotteries :
       ~(lotteries[lid].status = "scheduled"
           /\ lotteries[lid].draw_time <= clock)
  /\ \A j \in jobs : j.execution_time > clock

\* The lottery created as the g-th is scheduled and due.
C18_DueLottery(g) ==
  \E lid \in DOMAIN lotteries :
    /\ lotteries[lid].gen = g
    /\ lotteries[lid].status = "scheduled"
    /\ lotteries[lid].draw_time <= clock

\* The lottery created as the g-th is completed or deleted.
C18_Settled(g) ==
  \A lid \in DOMAIN lotteries :
    lotteries[lid].gen = g => lotteries[lid].status = "completed"

\* C18: when a scan has completed at the present time and nothing was
\* done since, nothing is due; and with the script run again and again, a
\* lottery that is due is completed (or deleted) in the end and a job that
\* is due is consumed in the end.
C18_DueWorkGetsDone ==
  /\ [](snap.valid => C18_NothingDue)
  /\ \A g \in 1..Live.creates : C18_DueLottery(g) ~> C18_Settled(g)
  /\ \A u \in 1..Live.plans :
       (\E j \in jobs : j.uid = u /\ j.execution_time <= clock)
         ~> (\A j \in jobs : j.uid # u)

\* C18 witness: a scan has completed at time 1; it drew a lottery
\* scheduled for that time and executed a job planned for that time.
C18_Witness ==
  /\ snap.valid
  /\ clock = 1
  /\ \E lid \in DOMAIN lotteries :
       /\ lotteries[lid].draw_time = 1
       /\ lotteries[lid].status = "completed"
  /\ \E e \in DOMAIN execs : e.src = "job"
  /\ nPlanned >= 1
  /\ jobs = {}

\* C19: a lottery is completed exactly when it has a winner row, and a
\* completed lottery has rows of round 1.
C19_CompletedIffWinners ==
  \A lid \in DOMAIN lotteries :
    /\ lotteries[lid].status = "completed" <=> RoundsOf(lid) # {}
    /\ lotteries[lid].status = "completed" => 1 \in RoundsOf(lid)

\* C20: every winner name is the name of a roster entry of its lottery,
\* and the candidate text of every pending job splits into names of
\* roster entries of its lottery (the list that was joined).
C20_WinnersAreRosterNames ==
  /\ \A r \in DOMAIN winners :
       r.winner_name \in Range(RosterOf(r.lottery_id))
  /\ \A j \in jobs :
       Range(Split(j.candidates)) \subseteq Range(RosterOf(j.lottery_id))

====
